---- MODULE Spec2Model ----
(***************************************************************************)
(* A model of the go-nmea sentence framing engine: ParseSentence,          *)
(* parsePrefix, xorChecksum and Parse (sentence.go) and the decoder        *)
(* constructors newZDA, newHBT and newDBT that drive the field parser.     *)
(*                                                                         *)
(* A Go string is a sequence of bytes: a text is modelled as a sequence of *)
(* byte values (ASCII codes), so that the checksum is really XOR-ed and    *)
(* really rendered as hexadecimal digits.  Indices are Go's (0-based);     *)
(* Slice converts to the 1-based sequences of TLA+.                        *)
(***************************************************************************)
EXTENDS Integers, Sequences, FiniteSets, TLC

\* ------------------------------------------------------------------ bounds

\* Longest text enumerated exhaustively over Alphabet.
MaxLen == 4

\* Longest field list handed to a decoder constructor.
MaxFields == 6

\* ------------------------------------------------------- program constants

SentenceStart == 36
\* "$"

SentenceStartEncapsulated == 33
\* "!"

FieldSep == 44
\* ","

ChecksumSep == 42
\* "*"

TypeZDA == <<90, 68, 65>>

TypeHBT == <<72, 66, 84>>

TypeDBT == <<68, 66, 84>>

\* The type constants the switch of Parse names whose declarations are in
\* files of the package that are not at hand; each has the value its name
\* spells (PGRME: the type left once the talker "P" is split off).
TypeALC == <<65, 76, 67>>
TypeALF == <<65, 76, 70>>
TypeALR == <<65, 76, 82>>
TypeARC == <<65, 82, 67>>
TypeDBK == <<68, 66, 75>>
TypeDBS == <<68, 66, 83>>
TypeDPT == <<68, 80, 84>>
TypeHDG == <<72, 68, 71>>
TypeRMC == <<82, 77, 67>>
TypeROT == <<82, 79, 84>>
TypeGGA == <<71, 71, 65>>
TypeGSA == <<71, 83, 65>>
TypeGLL == <<71, 76, 76>>
TypeVTG == <<86, 84, 71>>
TypePGRME == <<71, 82, 77, 69>>
TypeGSV == <<71, 83, 86>>
TypeHDT == <<72, 68, 84>>
TypeGNS == <<71, 78, 83>>
TypeTHS == <<84, 72, 83>>
TypeWPL == <<87, 80, 76>>
TypeRTE == <<82, 84, 69>>
TypeVHW == <<86, 72, 87>>
TypeVDM == <<86, 68, 77>>
TypeVDO == <<86, 68, 79>>

\* ------------------------------------------------------- strings and bytes

\* s[lo:hi] of Go is defined when 0 <= lo <= hi <= len(s); otherwise the
\* runtime panics (slice bounds out of range).
SliceOK(s, lo, hi) == 0 <= lo /\ lo <= hi /\ hi <= Len(s)

Slice(s, lo, hi) == SubSeq(s, lo + 1, hi)

\* strings.HasPrefix
HasPrefix(s, p) == Len(s) >= Len(p) /\ SubSeq(s, 1, Len(p)) = p

\* strings.IndexAny(s, chars): Go index of the first byte of s that is in
\* chars, -1 when there is none.
IndexAny(s, chars) ==
    LET hits == {i \in 1..Len(s) : s[i] \in chars}
    IN  IF hits = {} THEN -1
        ELSE (CHOOSE i \in hits : \A j \in hits : i <= j) - 1

\* strings.Index(s, c) for a one-byte separator c.
Index(s, c) == IndexAny(s, {c})

\* strings.ToUpper on ASCII text.
UpperByte(c) == IF c >= 97 /\ c <= 122 THEN c - 32 ELSE c

ToUpper(s) == [i \in 1..Len(s) |-> UpperByte(s[i])]

\* strings.Split(s, sep) for a one-byte separator: always at least one
\* element; Split("", ",") is [""].
RECURSIVE Split(_, _)
Split(s, sep) ==
    LET i == Index(s, sep)
    IN  IF i = -1 THEN <<s>>
        ELSE <<Slice(s, 0, i)>> \o Split(Slice(s, i + 1, Len(s)), sep)

\* Bit k of the byte a.
Bit(a, k) == (a \div (2 ^ k)) % 2

\* a ^ b on uint8: bit by bit, 1 where the bits differ.
BitXor(a, b) ==
    LET x(k) == IF Bit(a, k) # Bit(b, k) THEN 2 ^ k ELSE 0
    IN  x(0) + x(1) + x(2) + x(3) + x(4) + x(5) + x(6) + x(7)

\* One digit of the %X verb.
HexDigit(n) == IF n < 10 THEN 48 + n ELSE 55 + n

\* fmt.Sprintf("%02X", c) for a uint8 c.
Hex02X(c) == <<HexDigit(c \div 16), HexDigit(c % 16)>>

\* The loop of xorChecksum: checksum ^= s[i] for i = lo, lo+1, ..., hi
\* (1-based), in that order, from the given checksum.  The range is run
\* first half then second half only to keep the evaluation shallow.
RECURSIVE XorLoop(_, _, _, _)
XorLoop(s, lo, hi, checksum) ==
    IF lo > hi THEN checksum
    ELSE IF lo = hi THEN BitXor(checksum, s[lo])
    ELSE LET mid == (lo + hi) \div 2
             half == XorLoop(s, lo, mid, checksum)
         IN  IF half \in 0..255 THEN XorLoop(s, mid + 1, hi, half) ELSE half

\* xorChecksum with its loop started one byte late.
xorChecksum_SkipFirst(s) == Hex02X(XorLoop(s, 2, Len(s), 0))

xorChecksum(s) == Hex02X(XorLoop(s, 1, Len(s), 0))

\* --------------------------------------------------------------- sentences

\* An error value: what fmt.Errorf builds, as the kind of message, the
\* context it names and the texts formatted into it.  NoErr is nil.
Errorf(kind, ctx, args) == [kind |-> kind, ctx |-> ctx, args |-> args]

NoErr == Errorf("nil", "", <<>>)

\* BaseSentence{}
EmptySentence ==
    [Talker |-> <<>>, Type |-> <<>>, Fields |-> <<>>, Checksum |-> <<>>, Raw |-> <<>>]

\* BaseSentence.Prefix
Prefix(s) == s.Talker \o s.Type

\* s[lo:hi] as a value: Fault where Go panics.
Fault == <<-1>>

GoSlice(s, lo, hi) == IF SliceOK(s, lo, hi) THEN Slice(s, lo, hi) ELSE Fault

\* parsePrefix without its proprietary branch.
parsePrefix_NoProprietary(s) ==
    IF Len(s) < 2 THEN <<s, <<>> >>
    ELSE <<GoSlice(s, 0, 2), GoSlice(s, 2, Len(s))>>

parsePrefix(s) ==
    IF HasPrefix(s, <<80>>) THEN <<(<<80>>), GoSlice(s, 1, Len(s))>>
    ELSE IF Len(s) < 2 THEN <<s, <<>> >>
    ELSE <<GoSlice(s, 0, 2), GoSlice(s, 2, Len(s))>>

\* The outcome of a call: status "ok" with a record and a nil error,
\* "error" with BaseSentence{} and an error, or "panic" (a run-time fault,
\* nothing returned).
Returned(s, err) ==
    [status |-> IF err = NoErr THEN "ok" ELSE "error", s |-> s, err |-> err]

Panicked == [status |-> "panic", s |-> EmptySentence, err |-> NoErr]

\* The start-marker test that only asks for a marker somewhere in the text.
StartIndex_AnyOffset(raw) ==
    IndexAny(raw, {SentenceStart, SentenceStartEncapsulated})

\* The start-marker test of ParseSentence: the startIndex it goes on with,
\* -1 when it returns the start-marker error.
StartIndex(raw) ==
    LET startIndex == IndexAny(raw, {SentenceStart, SentenceStartEncapsulated})
    IN  IF startIndex # 0 THEN -1 ELSE startIndex

ParseSentence(raw) ==
    LET startIndex == StartIndex(raw)
        sumSepIndex == Index(raw, ChecksumSep)
    IN  IF startIndex = -1 THEN Returned(EmptySentence, Errorf("start", "", <<>>))
        ELSE IF sumSepIndex = -1 THEN Returned(EmptySentence, Errorf("separator", "", <<>>))
        ELSE IF ~SliceOK(raw, startIndex + 1, sumSepIndex) THEN Panicked
        ELSE IF ~SliceOK(raw, sumSepIndex + 1, sumSepIndex + 2) THEN Panicked
        ELSE
            LET fieldsRaw == Slice(raw, startIndex + 1, sumSepIndex)
                fields == Split(fieldsRaw, FieldSep)
                checksumRaw == ToUpper(Slice(raw, sumSepIndex + 1, sumSepIndex + 2))
                checksum == xorChecksum(fieldsRaw)
            IN  IF checksum # checksumRaw
                THEN Returned(EmptySentence, Errorf("checksum", "", <<checksum, checksumRaw>>))
                ELSE
                    LET pre == parsePrefix(fields[1])
                    IN  Returned([Talker |-> pre[1],
                                  Type |-> pre[2],
                                  Fields |-> Tail(fields),
                                  Checksum |-> checksumRaw,
                                  Raw |-> raw], NoErr)

\* ------------------------------------------------------------ field parser

\* A call a decoder constructor makes on its parser.
Call(op, typ, i, ctx) == [op |-> op, typ |-> typ, i |-> i, ctx |-> ctx]

\* A value a typed getter returns; ZeroVal is the zero/default value.
Val(n, scale, text) == [n |-> n, scale |-> scale, text |-> text]

ZeroVal == Val(0, 0, <<>>)

IsDigits(t) == Len(t) > 0 /\ \A i \in 1..Len(t) : t[i] >= 48 /\ t[i] <= 57

RECURSIVE Atoi(_)
Atoi(t) == IF t = <<>> THEN 0 ELSE 10 * Atoi(SubSeq(t, 1, Len(t) - 1)) + (t[Len(t)] - 48)

\* hhmmss
IsTime(t) ==
    /\ Len(t) = 6
    /\ IsDigits(t)
    /\ Atoi(SubSeq(t, 1, 2)) < 24
    /\ Atoi(SubSeq(t, 3, 4)) < 60
    /\ Atoi(SubSeq(t, 5, 6)) < 60

Seconds(t) == 3600 * Atoi(SubSeq(t, 1, 2)) + 60 * Atoi(SubSeq(t, 3, 4)) + Atoi(SubSeq(t, 5, 6))

\* NewParser(s) / newParser(s): a parser over the sentence with an empty
\* error slot.
NewParser(s) == [s |-> s, err |-> NoErr]

\* The error slot takes the first error recorded and keeps it.
SetErr(p, e) == IF p.err = NoErr /\ e # NoErr THEN [p EXCEPT !.err = e] ELSE p

\* The error a call raises by itself on sentence s, NoErr when it
\* succeeds: a type mismatch for AssertType; for a getter an index out of
\* range or a text that does not parse as the requested type (an empty
\* field is "not provided": no error).
OwnError(s, c) ==
    IF c.op = "Err" THEN NoErr
    ELSE IF c.op = "AssertType"
    THEN IF s.Type # c.typ THEN Errorf("type", c.ctx, <<s.Type>>) ELSE NoErr
    ELSE IF c.i < 0 \/ c.i >= Len(s.Fields) THEN Errorf("index", c.ctx, <<>>)
    ELSE LET t == s.Fields[c.i + 1]
             ok == CASE c.op = "String" -> TRUE
                     [] c.op = "Int64" -> t = <<>> \/ IsDigits(t)
                     [] c.op = "Float64" -> t = <<>> \/ IsDigits(t)
                     [] c.op = "Time" -> t = <<>> \/ IsTime(t)
         IN  IF ok THEN NoErr ELSE Errorf("field", c.ctx, <<t>>)

\* The value a getter returns: the parsed field, the zero value when the
\* call fails or the field is empty.
OwnValue(s, c) ==
    IF c.op \in {"Err", "AssertType"} \/ OwnError(s, c) # NoErr THEN ZeroVal
    ELSE LET t == s.Fields[c.i + 1]
         IN  CASE c.op = "String" -> Val(0, 0, t)
               [] c.op = "Int64" -> Val(Atoi(t), 0, <<>>)
               [] c.op = "Float64" -> Val(Atoi(t), 0, <<>>)
               [] c.op = "Time" -> IF t = <<>> THEN ZeroVal ELSE Val(Seconds(t), 0, <<>>)

\* One accessor call on parser p: the parser afterwards and the value.
ApplyCall(p, c) == [p |-> SetErr(p, OwnError(p.s, c)), val |-> OwnValue(p.s, c)]

\* p.Err()
Err(p) == p.err

\* --------------------------------------------------- decoder constructors

\* The calls of a constructor, in Go's evaluation order: function calls of
\* an expression are made in lexical left-to-right order, so the getters of
\* the struct literal run before the p.Err() that follows them.
\* newZDA with p.Err() taken before the last getter has run.
newZDA_ErrEarly ==
    << Call("AssertType", TypeZDA, 0, "type"),
       Call("Time", <<>>, 0, "time"),
       Call("Int64", <<>>, 1, "day"),
       Call("Int64", <<>>, 2, "month"),
       Call("Int64", <<>>, 3, "year"),
       Call("Int64", <<>>, 4, "offset (hours)"),
       Call("Err", <<>>, 0, ""),
       Call("Int64", <<>>, 5, "offset (minutes)") >>

newZDA ==
    << Call("AssertType", TypeZDA, 0, "type"),
       Call("Time", <<>>, 0, "time"),
       Call("Int64", <<>>, 1, "day"),
       Call("Int64", <<>>, 2, "month"),
       Call("Int64", <<>>, 3, "year"),
       Call("Int64", <<>>, 4, "offset (hours)"),
       Call("Int64", <<>>, 5, "offset (minutes)"),
       Call("Err", <<>>, 0, "") >>

newHBT ==
    << Call("AssertType", TypeHBT, 0, "type"),
       Call("Float64", <<>>, 0, "Interval"),
       Call("String", <<>>, 1, "Status"),
       Call("String", <<>>, 2, "ID"),
       Call("Err", <<>>, 0, "") >>

newDBT ==
    << Call("AssertType", TypeDBT, 0, "type"),
       Call("Float64", <<>>, 0, "DepthFeet"),
       Call("String", <<>>, 1, "Feet"),
       Call("Float64", <<>>, 2, "DepthMeters"),
       Call("String", <<>>, 3, "Meters"),
       Call("Float64", <<>>, 4, "DepthFathom"),
       Call("String", <<>>, 5, "Fathom"),
       Call("Err", <<>>, 0, "") >>

Constructors == {"newZDA", "newHBT", "newDBT"}

CallsOf(d) ==
    CASE d = "newZDA" -> newZDA
      [] d = "newHBT" -> newHBT
      [] d = "newDBT" -> newDBT

\* A whole constructor run from call k on: the error its p.Err() returns.
RECURSIVE RunFrom(_, _, _, _)
RunFrom(p, calls, k, ret) ==
    IF k > Len(calls) THEN ret
    ELSE IF calls[k].op = "Err" THEN RunFrom(p, calls, k + 1, Err(p))
    ELSE RunFrom(ApplyCall(p, calls[k]).p, calls, k + 1, ret)

Decode(d, s) == RunFrom(NewParser(s), CallsOf(d), 1, NoErr)

\* ------------------------------------------------------------------ Parse

\* The switch of Parse over s.Type for a "$" sentence: the constructor it
\* calls, "" when no case matches.
ConventionalDecoder(typ) ==
    CASE typ = TypeALC -> "newALC"
      [] typ = TypeALF -> "newALF"
      [] typ = TypeALR -> "newALR"
      [] typ = TypeARC -> "newARC"
      [] typ = TypeDBK -> "newDBK"
      [] typ = TypeDBS -> "newDBS"
      [] typ = TypeDBT -> "newDBT"
      [] typ = TypeDPT -> "newDPT"
      [] typ = TypeHBT -> "newHBT"
      [] typ = TypeHDG -> "newHDG"
      [] typ = TypeRMC -> "newRMC"
      [] typ = TypeROT -> "newROT"
      [] typ = TypeGGA -> "newGGA"
      [] typ = TypeGSA -> "newGSA"
      [] typ = TypeGLL -> "newGLL"
      [] typ = TypeVTG -> "newVTG"
      [] typ = TypeZDA -> "newZDA"
      [] typ = TypePGRME -> "newPGRME"
      [] typ = TypeGSV -> "newGSV"
      [] typ = TypeHDT -> "newHDT"
      [] typ = TypeGNS -> "newGNS"
      [] typ = TypeTHS -> "newTHS"
      [] typ = TypeWPL -> "newWPL"
      [] typ = TypeRTE -> "newRTE"
      [] typ = TypeVHW -> "newVHW"
      [] OTHER -> ""

\* The switch of Parse over s.Type for a "!" sentence.
EncapsulatedDecoder(typ) == IF typ \in {TypeVDM, TypeVDO} THEN "newVDMVDO" ELSE ""

\* The constructor Parse hands s to, "" when it falls through to the
\* "not supported" error.
Dispatch(s) ==
    LET conventional == IF HasPrefix(s.Raw, <<SentenceStart>>)
                        THEN ConventionalDecoder(s.Type) ELSE ""
        encapsulated == IF HasPrefix(s.Raw, <<SentenceStartEncapsulated>>)
                        THEN EncapsulatedDecoder(s.Type) ELSE ""
    IN  IF conventional # "" THEN conventional ELSE encapsulated

\* The errors a constructor can return for s: the one its parser has
\* accumulated; for a constructor whose file is not at hand, none or some
\* field error.
DecoderErrs(d, s) ==
    IF d \in Constructors THEN {Decode(d, s)}
    ELSE {NoErr, Errorf("field", "", <<>>)}

NoParse(status, err) == [status |-> status, decoder |-> "", s |-> EmptySentence, err |-> err]

\* The outcomes of Parse(raw): "decoded" with the constructor's record and
\* error, "error" with a nil Sentence, or "panic".
Parse(raw) ==
    LET r == ParseSentence(raw)
    IN  IF r.status = "panic" THEN {NoParse("panic", NoErr)}
        ELSE IF r.err # NoErr THEN {NoParse("error", r.err)}
        ELSE IF Dispatch(r.s) # ""
        THEN {[status |-> "decoded", decoder |-> Dispatch(r.s), s |-> r.s, err |-> e] :
                e \in DecoderErrs(Dispatch(r.s), r.s)}
        ELSE {NoParse("error", Errorf("unsupported", "", <<Prefix(r.s)>>))}

\* ----------------------------------------------------------------- inputs

\* "$", "!", "*", ",", "P", "0"
Alphabet == {36, 33, 42, 44, 80, 48}

Texts(n) == UNION {[1..k -> Alphabet] : k \in 0..n}

\* $GPRMC,220516,A,5133.82,N,00042.24,W,173.8,231.8,130694,004.2,W*70
ReadmeSentence ==
    <<36, 71, 80, 82, 77, 67, 44, 50, 50, 48, 53, 49, 54, 44, 65, 44, 53, 49, 51, 51, 46, 56, 50, 44, 78, 44, 48, 48, 48, 52, 50, 46, 50, 52, 44, 87, 44, 49, 55, 51, 46, 56, 44, 50, 51, 49, 46, 56, 44, 49, 51, 48, 54, 57, 52, 44, 48, 48, 52, 46, 50, 44, 87, 42, 55, 48>>

\* $GPRMC,220516,A,5133.82,N,00042.24,W,173.8,231.8,130694,004.2,W*71
ReadmeFlipped ==
    <<36, 71, 80, 82, 77, 67, 44, 50, 50, 48, 53, 49, 54, 44, 65, 44, 53, 49, 51, 51, 46, 56, 50, 44, 78, 44, 48, 48, 48, 52, 50, 46, 50, 52, 44, 87, 44, 49, 55, 51, 46, 56, 44, 50, 51, 49, 46, 56, 44, 49, 51, 48, 54, 57, 52, 44, 48, 48, 52, 46, 50, 44, 87, 42, 55, 49>>

\* x$GPRMC,1*70
MarkerLater ==
    <<120, 36, 71, 80, 82, 77, 67, 44, 49, 42, 55, 48>>

\* $GPZZZ*4D
UnknownType ==
    <<36, 71, 80, 90, 90, 90, 42, 52, 68>>

\* !GPRMC*4B
ConventionalUnderBang ==
    <<33, 71, 80, 82, 77, 67, 42, 52, 66>>

\* $AIVDM*57
EncapsulatedUnderDollar ==
    <<36, 65, 73, 86, 68, 77, 42, 53, 55>>

\* !AIVDM,1*4A
EncapsulatedVDM ==
    <<33, 65, 73, 86, 68, 77, 44, 49, 42, 52, 65>>

\* $GPZDA,,,,,,*48
EmptyZDA ==
    <<36, 71, 80, 90, 68, 65, 44, 44, 44, 44, 44, 44, 42, 52, 56>>

\* $GPRMC*4b
LowerCaseSum ==
    <<36, 71, 80, 82, 77, 67, 42, 52, 98>>

\* $GPRMC*
StarLast ==
    <<36, 71, 80, 82, 77, 67, 42>>

\* $GPRMC*4
OneAfterStar ==
    <<36, 71, 80, 82, 77, 67, 42, 52>>

\* $GPRMC*4B\r\n
TrailingText ==
    <<36, 71, 80, 82, 77, 67, 42, 52, 66, 13, 10>>

\* PGRME
Proprietary ==
    <<80, 71, 82, 77, 69>>

\* G
ShortPrefix ==
    <<71>>

Samples ==
    {ReadmeSentence,
     ReadmeFlipped,
     MarkerLater,
     UnknownType,
     ConventionalUnderBang,
     EncapsulatedUnderDollar,
     EncapsulatedVDM,
     EmptyZDA,
     LowerCaseSum,
     StarLast,
     OneAfterStar,
     TrailingText,
     Proprietary,
     ShortPrefix}

Inputs == Texts(MaxLen) \cup Samples

\* ------------------------------------------------------------------ state

VARIABLES
    raw,         \* the input text of the call
    pc,          \* "start", then the function that was called
    sentence,    \* what ParseSentence(raw) came to
    parsed,      \* what Parse(raw) came to
    prefix,      \* what parsePrefix(raw) returned: <<talker, type>>
    exchanged,   \* raw with two of its bytes exchanged
    sum,         \* xorChecksum(raw)
    sumExchanged,\* xorChecksum(exchanged)
    dec,         \* the decoder constructor that is running
    p,           \* its parser
    step,        \* the index of its next call, 0 before NewParser
    log,         \* the error each call made so far raised by itself
    vals,        \* the values the getters returned so far
    ret          \* the error the constructor returns

vars == <<raw, pc, sentence, parsed, prefix, exchanged, sum, sumExchanged,
          dec, p, step, log, vals, ret>>

textVars == <<raw, pc, sentence, parsed, prefix, exchanged, sum, sumExchanged>>

decodeVars == <<dec, p, step, log, vals, ret>>

NotCalled == [status |-> "none", s |-> EmptySentence, err |-> NoErr]

IdleText ==
    /\ raw = <<>>
    /\ pc = "idle"
    /\ sentence = NotCalled
    /\ parsed = NoParse("none", NoErr)
    /\ prefix = <<>>
    /\ exchanged = <<>>
    /\ sum = <<>>
    /\ sumExchanged = <<>>

IdleDecode ==
    /\ dec = ""
    /\ p = NewParser(EmptySentence)
    /\ step = 0
    /\ log = <<>>
    /\ vals = <<>>
    /\ ret = NoErr

\* ------------------------------------------- calls on a text (sentence.go)

Init ==
    /\ raw \in Inputs
    /\ pc = "start"
    /\ sentence = NotCalled
    /\ parsed = NoParse("none", NoErr)
    /\ prefix = <<>>
    /\ exchanged = <<>>
    /\ sum = <<>>
    /\ sumExchanged = <<>>
    /\ IdleDecode

CallParseSentence ==
    /\ pc = "start"
    /\ pc' = "ParseSentence"
    /\ sentence' = ParseSentence(raw)
    /\ UNCHANGED <<raw, parsed, prefix, exchanged, sum, sumExchanged>>
    /\ UNCHANGED decodeVars

CallParse ==
    /\ pc = "start"
    /\ pc' = "Parse"
    /\ parsed' \in Parse(raw)
    /\ UNCHANGED <<raw, sentence, prefix, exchanged, sum, sumExchanged>>
    /\ UNCHANGED decodeVars

CallParsePrefix ==
    /\ pc = "start"
    /\ pc' = "parsePrefix"
    /\ prefix' = parsePrefix(raw)
    /\ UNCHANGED <<raw, sentence, parsed, exchanged, sum, sumExchanged>>
    /\ UNCHANGED decodeVars

\* raw with the bytes at positions i and j (1-based) exchanged.
Exchange(s, i, j) ==
    [k \in 1..Len(s) |-> IF k = i THEN s[j] ELSE IF k = j THEN s[i] ELSE s[k]]

\* xorChecksum of the text and of the text with two different bytes
\* exchanged.
CallXorChecksum ==
    /\ pc = "start"
    /\ \E i, j \in 1..Len(raw) :
        /\ i < j
        /\ raw[i] # raw[j]
        /\ exchanged' = Exchange(raw, i, j)
    /\ pc' = "xorChecksum"
    /\ sum' = xorChecksum(raw)
    /\ sumExchanged' = xorChecksum(exchanged')
    /\ UNCHANGED <<raw, sentence, parsed, prefix>>
    /\ UNCHANGED decodeVars

Next ==
    \/ CallParseSentence
    \/ CallParse
    \/ CallParsePrefix
    \/ CallXorChecksum

Spec == Init /\ [][Next]_vars

\* ----------------------------------- decoder constructors, call by call

\* A field as it comes off the wire: not provided, a number that is also a
\* time of day ("120000"), or malformed for every numeric type ("x").
FieldTokens == {<<>>, <<49, 50, 48, 48, 48, 48>>, <<120>>}

FieldLists(n) == UNION {[1..k -> FieldTokens] : k \in 0..n}

\* The sentences handed to a constructor.
DecodeInputs ==
    {[Talker |-> <<71, 80>>, Type |-> typ, Fields |-> f, Checksum |-> <<>>, Raw |-> <<>>] :
        typ \in {TypeZDA, TypeHBT, TypeDBT}, f \in FieldLists(MaxFields)}

InitDecode ==
    /\ IdleText
    /\ IdleDecode

\* The call the running constructor makes next; the constructor is done
\* when there is none.
Running == dec # "" /\ step \in 1..Len(CallsOf(dec))

Done == dec # "" /\ step > Len(CallsOf(dec))

NextCall == CallsOf(dec)[step]

\* p := NewParser(s) on entry to the constructor d.
CallConstructor ==
    /\ dec = ""
    /\ \E d \in Constructors, s \in DecodeInputs :
        /\ dec' = d
        /\ p' = NewParser(s)
    /\ step' = 1
    /\ UNCHANGED <<log, vals, ret>>
    /\ UNCHANGED textVars

CallAssertType ==
    /\ Running
    /\ NextCall.op = "AssertType"
    /\ p' = ApplyCall(p, NextCall).p
    /\ log' = Append(log, OwnError(p.s, NextCall))
    /\ step' = step + 1
    /\ UNCHANGED <<dec, vals, ret>>
    /\ UNCHANGED textVars

\* A typed getter: the value goes into the struct literal, the error (if
\* any) into the parser.
Getter ==
    /\ p' = ApplyCall(p, NextCall).p
    /\ vals' = Append(vals, ApplyCall(p, NextCall).val)
    /\ log' = Append(log, OwnError(p.s, NextCall))
    /\ step' = step + 1
    /\ UNCHANGED <<dec, ret>>
    /\ UNCHANGED textVars

CallString ==
    /\ Running
    /\ NextCall.op = "String"
    /\ Getter

CallInt64 ==
    /\ Running
    /\ NextCall.op = "Int64"
    /\ Getter

CallFloat64 ==
    /\ Running
    /\ NextCall.op = "Float64"
    /\ Getter

CallTime ==
    /\ Running
    /\ NextCall.op = "Time"
    /\ Getter

CallErr ==
    /\ Running
    /\ NextCall.op = "Err"
    /\ ret' = Err(p)
    /\ step' = step + 1
    /\ UNCHANGED <<dec, p, log, vals>>
    /\ UNCHANGED textVars

NextDecode ==
    \/ CallConstructor
    \/ CallAssertType
    \/ CallString
    \/ CallInt64
    \/ CallFloat64
    \/ CallTime
    \/ CallErr

SpecDecode == InitDecode /\ [][NextDecode]_vars

\* ----------------------------------------------- the wire format, as stated

\* What the sentence format says of a text, independently of the functions
\* above: the marker at offset 0, the first "*", the bytes between them, the
\* characters after the "*", and the checksum those bytes should carry.
Framed(t) == Len(t) >= 1 /\ t[1] \in {36, 33}

HasSep(t) == \E i \in 1..Len(t) : t[i] = 42

SepPos(t) == CHOOSE i \in 1..Len(t) : t[i] = 42 /\ \A j \in 1..(i - 1) : t[j] # 42

Body(t) == SubSeq(t, 2, SepPos(t) - 1)

Declared(t) == ToUpper(SubSeq(t, SepPos(t) + 1, IF SepPos(t) + 2 <= Len(t) THEN SepPos(t) + 2 ELSE Len(t)))

HexChars == <<48, 49, 50, 51, 52, 53, 54, 55, 56, 57, 65, 66, 67, 68, 69, 70>>

\* The XOR of a byte sequence, bit by bit: a bit is set when an odd number
\* of the bytes have it set.
ParityXor(b) ==
    LET bit(k) == IF Cardinality({i \in 1..Len(b) : Bit(b[i], k) = 1}) % 2 = 1 THEN 2 ^ k ELSE 0
    IN  bit(0) + bit(1) + bit(2) + bit(3) + bit(4) + bit(5) + bit(6) + bit(7)

Expected(t) == <<HexChars[(ParityXor(Body(t)) \div 16) + 1], HexChars[(ParityXor(Body(t)) % 16) + 1]>>

ChecksumValid(t) == Framed(t) /\ HasSep(t) /\ Declared(t) = Expected(t)

\* The elements of a byte sequence between the commas.
CommaCuts(b) == <<0>> \o SelectSeq([i \in 1..Len(b) |-> IF b[i] = 44 THEN i ELSE 0], LAMBDA i : i # 0) \o <<Len(b) + 1>>

CommaSplit(b) == [k \in 1..(Len(CommaCuts(b)) - 1) |-> SubSeq(b, CommaCuts(b)[k] + 1, CommaCuts(b)[k + 1] - 1)]

ConventionalTypes ==
    {TypeALC, TypeALF, TypeALR, TypeARC, TypeDBK, TypeDBS, TypeDBT, TypeDPT, TypeHBT,
     TypeHDG, TypeRMC, TypeROT, TypeGGA, TypeGSA, TypeGLL, TypeVTG, TypeZDA, TypePGRME,
     TypeGSV, TypeHDT, TypeGNS, TypeTHS, TypeWPL, TypeRTE, TypeVHW}

\* ------------------------------------------------------------------ claims

\* C1: for a text with "$" or "!" at offset 0 that contains a "*",
\* ParseSentence succeeds exactly when the two characters after the first
\* "*", in upper case, are the XOR of the bytes between marker and "*" as
\* two upper-case hex digits; on a mismatch it returns a checksum error
\* reporting the computed and the declared value, and no record.  (Stated
\* for the texts that have two characters after the "*"; the shorter ones
\* are the matter of C2.)
C1_ChecksumDecides ==
    (pc = "ParseSentence" /\ Framed(raw) /\ HasSep(raw) /\ Len(raw) >= SepPos(raw) + 2) =>
        /\ (sentence.status = "ok") <=> (Declared(raw) = Expected(raw))
        /\ Declared(raw) # Expected(raw) =>
            /\ sentence.status = "error"
            /\ sentence.err = Errorf("checksum", "", <<Expected(raw), Declared(raw)>>)
            /\ sentence.s = EmptySentence

\* C2: Parse and ParseSentence end with a record or a returned error, never
\* with an out-of-bounds fault; when fewer than two characters follow the
\* "*" the outcome is a returned framing or checksum error.
C2_NeverFaults ==
    /\ pc = "ParseSentence" => sentence.status \in {"ok", "error"}
    /\ pc = "Parse" => parsed.status \in {"decoded", "error"}
    /\ (pc = "ParseSentence" /\ Framed(raw) /\ HasSep(raw) /\ Len(raw) < SepPos(raw) + 2) =>
        /\ sentence.status = "error"
        /\ sentence.err.kind \in {"start", "separator", "checksum"}

\* C3: Parse of the README sentence returns no error and a record with
\* talker "GP", type "RMC", 12 data fields and checksum "70".
C3_ReadmeExample ==
    (pc = "Parse" /\ raw = ReadmeSentence) =>
        /\ parsed.status = "decoded"
        /\ parsed.err = NoErr
        /\ parsed.s.Talker = <<71, 80>>
        /\ parsed.s.Type = TypeRMC
        /\ Len(parsed.s.Fields) = 12
        /\ parsed.s.Checksum = <<55, 48>>

\* C4: ParseSentence returns the start-marker error and an empty record for
\* every text whose first character is not "$" or "!" (the empty text and a
\* marker at a later offset included, and whether or not there is a "*"),
\* and the missing-separator error and an empty record for every text that
\* starts with a marker and has no "*".
C4_FramingErrors ==
    pc = "ParseSentence" =>
        /\ ~Framed(raw) =>
            /\ sentence.status = "error"
            /\ sentence.err = Errorf("start", "", <<>>)
            /\ sentence.s = EmptySentence
        /\ (Framed(raw) /\ ~HasSep(raw)) =>
            /\ sentence.status = "error"
            /\ sentence.err = Errorf("separator", "", <<>>)
            /\ sentence.s = EmptySentence

\* ParseSentence was called on a text with the marker at offset 1 and a "*"
\* further on, and returned the start-marker error.
C4_Witness ==
    /\ pc = "ParseSentence"
    /\ raw = MarkerLater
    /\ HasSep(raw)
    /\ sentence.err.kind = "start"

\* C5: for a well-framed, checksum-valid sentence Parse picks the decoder by
\* (start marker, type code): VDM and VDO only under "!", the conventional
\* types only under "$"; a pair with no entry gives no record and the
\* unsupported-sentence error carrying the talker+type prefix.
C5_DispatchByMarkerAndType ==
    (pc = "Parse" /\ ChecksumValid(raw)) =>
        LET pre == CommaSplit(Body(raw))[1]
            typ == parsePrefix(pre)[2]
            registered == \/ raw[1] = 36 /\ typ \in ConventionalTypes
                          \/ raw[1] = 33 /\ typ \in {TypeVDM, TypeVDO}
        IN  /\ registered => (parsed.status = "decoded" /\ parsed.s.Type = typ)
            /\ ~registered =>
                /\ parsed.status = "error"
                /\ parsed.err = Errorf("unsupported", "", <<pre>>)
                /\ parsed.s = EmptySentence

\* C6: parsePrefix has no failure path; a prefix that starts with "P" gives
\* ("P", the rest), even when the rest is empty; otherwise one shorter than
\* 2 gives (itself, ""); otherwise (its first 2 characters, the rest).
C6_PrefixSplit ==
    pc = "parsePrefix" =>
        /\ Len(prefix) = 2
        /\ IF Len(raw) >= 1 /\ raw[1] = 80
           THEN prefix[1] = <<80>> /\ prefix[2] = Tail(raw)
           ELSE IF Len(raw) < 2
           THEN prefix[1] = raw /\ prefix[2] = <<>>
           ELSE prefix[1] = <<raw[1], raw[2]>> /\ prefix[2] = Tail(Tail(raw))

\* parsePrefix was called on "PGRME" and gave ("P", "GRME").
C6_Witness ==
    /\ pc = "parsePrefix"
    /\ raw = Proprietary
    /\ prefix = << <<80>>, <<71, 82, 77, 69>> >>

\* C7: the Fields of a record ParseSentence returns without error are the
\* comma-split of the bytes between marker and first "*" less its first
\* element; and a checksum-valid sentence whose "*" comes before any ","
\* parses, with zero data fields.
C7_FieldsAreTheSplit ==
    pc = "ParseSentence" =>
        /\ sentence.status = "ok" => sentence.s.Fields = Tail(CommaSplit(Body(raw)))
        /\ (ChecksumValid(raw) /\ \A i \in 1..Len(Body(raw)) : Body(raw)[i] # 44) =>
            /\ sentence.status = "ok"
            /\ sentence.s.Fields = <<>>

\* No text at all is accepted by ParseSentence as it stands: the declared
\* checksum it compares is one character long, the computed one two.  The
\* records C7 and C9 speak of therefore never come to exist.
NoTextIsAccepted ==
    /\ pc = "ParseSentence" => sentence.status # "ok"
    /\ pc = "Parse" => parsed.status # "decoded"

\* The error of the first failing call of a log, NoErr when none failed.
FirstErr(l) ==
    IF \A i \in 1..Len(l) : l[i] = NoErr THEN NoErr
    ELSE l[CHOOSE i \in 1..Len(l) : l[i] # NoErr /\ \A j \in 1..(i - 1) : l[j] = NoErr]

\* C8: within one decode call the error slot is write-once: at every point
\* it holds the error of the first call that failed so far (none when none
\* failed), later calls still return a value, and Err() gives the error of
\* the first failing call of the whole call, none exactly when no call
\* failed.
C8_FirstErrorWins ==
    /\ dec # "" => p.err = FirstErr(log)
    /\ Done =>
        /\ ret = FirstErr(log)
        /\ Len(log) = Len(CallsOf(dec)) - 1
        /\ Len(vals) = Len(CallsOf(dec)) - 2

\* A constructor has returned after two of its calls failed with different
\* errors, and returned the earlier one.
C8_Witness ==
    /\ Done
    /\ \E i, j \in 1..Len(log) :
        /\ i < j
        /\ log[i] # NoErr
        /\ log[j] # NoErr
        /\ log[i] # log[j]
        /\ ret = log[i]

\* C10 as stated: exchanging two bytes that differ changes xorChecksum.
C10_OrderSensitive ==
    pc = "xorChecksum" => sumExchanged # sum

\* C10: xorChecksum is the XOR of the bytes as two upper-case hex digits,
\* whatever their order: exchanging two bytes of the text leaves it
\* unchanged.
C10_OrderInsensitive ==
    pc = "xorChecksum" =>
        /\ sumExchanged = sum
        /\ sum = <<HexChars[(ParityXor(raw) \div 16) + 1], HexChars[(ParityXor(raw) % 16) + 1]>>

\* xorChecksum was taken of a sample sentence and of the sentence with two
\* different bytes exchanged.
C10_Witness ==
    /\ pc = "xorChecksum"
    /\ raw = UnknownType
    /\ exchanged # raw
    /\ sumExchanged = sum

====
